---------------------------- MODULE Spec2Model ----------------------------
(***************************************************************************)
(* Model of the job dispatch and result-reconciliation pipeline of         *)
(* wordcab-transcribe: the diarization stamp reconciler, the diarization   *)
(* parameter selection, the transcription fallback and the device pool.    *)
(*                                                                         *)
(* Units.  Speaker stamps are floats in the source.  Here a time is an     *)
(* integer number of quarter seconds, and every input time is a multiple   *)
(* of 4 (a whole second) or of 2 (a half second), so that the midpoint     *)
(* (a + b) / 2.0 the source computes is exact under integer division, as   *)
(* it is in binary floating point for these values.  Audio durations are   *)
(* integers in tenths of a second; window and shift lengths are integers   *)
(* in hundredths of a second.                                              *)
(***************************************************************************)
EXTENDS Integers, Sequences, FiniteSets, Bags, TLC

VARIABLES
    rc_pc,      \* position in the reconciliation part of DiarizeService.__call__
    rc_in,      \* clustering_outputs, as returned by the clustering module
    rc_stamps,  \* the list object handed to get_contiguous_stamps (mutated in place)
    rc_a,       \* _outputs = get_contiguous_stamps(clustering_outputs)
    rc_mid,     \* the list object _outputs after merge_stamps mutated it in place
    rc_out,     \* outputs = merge_stamps(_outputs)
    rc_a2,      \* Phase A applied to outputs once more
    rc_out2,    \* Phase B applied to rc_a2
    tr_pc,      \* position in TranscribeService.__call__ (single audio)
    tr_args,    \* the caller's arguments: vocab and the three boolean options
    tr_calls,   \* the calls made to self.model.transcribe, in order
    tr_first,   \* the outcome of the first pass, list(segments)
    tr_second,  \* the outcome of the retry pass
    tr_outputs, \* the returned outputs
    tr_log,     \* the warnings written to the logger
    dz_pc,      \* position in DiarizeService.__init__ / __call__
    dz_cfg,     \* the constructor's arguments
    dz_self,    \* the attributes __init__ sets
    dz_call,    \* the arguments of the current call and what VAD returned
    dz_trace,   \* the collaborators invoked by the current call, in order
    dz_seg,     \* the arguments handed to the segmentation model
    dz_result,  \* what the current call returned
    pl_free,    \* DeviceModelPool: the replicas no job holds
    pl_lease,   \* per job, the replicas it holds a PoolSlot on
    pl_state,   \* per job, its JobOrchestrator state
    pl_last,    \* the last transition taken: job, kind and replica
    er_pc,      \* position around the call of early_return
    er_duration,\* the duration handed to early_return
    er_result,  \* the tuple early_return returned
    mc_pc,      \* position in TranscribeService.__call__ (list of audios)
    mc_args,    \* the caller's arguments: vocab, the audios, the options
    mc_prompt,  \* the prompt computed before the loop over the audios
    mc_calls,   \* the calls of multi_channel and of the model inside them
    mc_outputs, \* outputs: one final_transcript per finished channel
    mc_error,   \* the exception that left __call__, if any
    yt_value,   \* download_limit: the permits of the semaphore not taken
    yt_reqs     \* the YouTube requests, a bag of handler states

rvars == <<rc_pc, rc_in, rc_stamps, rc_a, rc_mid, rc_out, rc_a2, rc_out2>>
tvars == <<tr_pc, tr_args, tr_calls, tr_first, tr_second, tr_outputs, tr_log>>

dvars == <<dz_pc, dz_cfg, dz_self, dz_call, dz_trace, dz_seg, dz_result>>

pvars == <<pl_free, pl_lease, pl_state, pl_last>>

evars == <<er_pc, er_duration, er_result>>

mvars == <<mc_pc, mc_args, mc_prompt, mc_calls, mc_outputs, mc_error>>

yvars == <<yt_value, yt_reqs>>

vars == <<rvars, tvars, dvars, pvars, evars, mvars, yvars>>

\* What the steps of one component leave alone: the other components.
notReconcile == <<tvars, dvars, pvars, evars, mvars, yvars>>
notTranscribe == <<rvars, dvars, pvars, evars, mvars, yvars>>
notDiarize == <<rvars, tvars, pvars, evars, mvars, yvars>>
notPool == <<rvars, tvars, dvars, evars, mvars, yvars>>
notEarlyReturn == <<rvars, tvars, dvars, pvars, mvars, yvars>>
notMultiChannel == <<rvars, tvars, dvars, pvars, evars, yvars>>
notYouTube == <<rvars, tvars, dvars, pvars, evars, mvars>>

-----------------------------------------------------------------------------
(* Bounds of the model. *)

MaxLen == 3        \* longest clustering output drawn
MaxTime == 2       \* largest input time, in seconds
NumSpeakers == 2   \* speaker labels 0 .. NumSpeakers-1
MaxSegments == 2   \* most segments one transcription pass returns
MaxScales == 5     \* longest configured window / shift / weight list
NumDevices == 2    \* configured device indices 0 .. NumDevices-1
NumJobs == 4       \* jobs submitted to the orchestrator
MaxDuration == 60  \* longest duration handed to early_return
MaxChannels == 2   \* most audios in the list handed to TranscribeService.__call__
NumRequests == 11  \* YouTube requests that may arrive

\* device_index: the configured devices
DeviceIndex == 0..(NumDevices - 1)

-----------------------------------------------------------------------------
(* Speaker stamps: Tuple[float, float, int] = <<start, end, speaker>>. *)

Times == {4 * t : t \in 0..MaxTime}
Speakers == 0..(NumSpeakers - 1)
Stamps == {<<s, e, k>> : s \in Times, e \in Times, k \in Speakers}
WellFormedStamps == {st \in Stamps : st[1] <= st[2]}

\* Sequences of n stamps in chronological order of start.
OrderedStampSeqs(n) ==
    {q \in [1..n -> WellFormedStamps] :
        \A i \in 1..(n - 1) : q[i][1] <= q[i + 1][1]}

\* The two worked examples of the specification (speakers A = 0, B = 1).
ExampleOverlap == << <<0, 20, 0>>, <<16, 36, 1>>, <<36, 38, 0>> >>
ExampleTouching == << <<0, 12, 0>>, <<12, 24, 0>> >>

Examples == {ExampleOverlap, ExampleTouching}

-----------------------------------------------------------------------------
(* get_contiguous_stamps (Phase A). *)

\* A plausible slip: next_start + end / 2.0, the division binding first.
AvgPrecedenceSlip(next_start, end) == next_start + (end \div 2)

\* avg = (next_start + end) / 2.0
Avg(next_start, end) == (next_start + end) \div 2

\* A plausible slip: the overlap is resolved for segment i only and the
\* rewritten start is not stored back into stamps[i + 1].
RECURSIVE ContiguousLoopNoWriteBack(_, _, _)
ContiguousLoopNoWriteBack(stamps, i, contiguous_stamps) ==
    IF i > Len(stamps) - 1
    THEN [stamps |-> stamps, out |-> contiguous_stamps]
    ELSE LET start == stamps[i][1]
             end == stamps[i][2]
             speaker == stamps[i][3]
             next_start == stamps[i + 1][1]
         IN IF end > next_start
            THEN ContiguousLoopNoWriteBack(stamps, i + 1,
                     Append(contiguous_stamps,
                            <<start, Avg(next_start, end), speaker>>))
            ELSE ContiguousLoopNoWriteBack(stamps, i + 1,
                     Append(contiguous_stamps, <<start, end, speaker>>))

\* The for loop over range(len(stamps) - 1), from index i on (1-based here):
\* the list as mutated so far and the output built so far.
RECURSIVE ContiguousLoop(_, _, _)
ContiguousLoop(stamps, i, contiguous_stamps) ==
    IF i > Len(stamps) - 1
    THEN [stamps |-> stamps, out |-> contiguous_stamps]
    ELSE LET start == stamps[i][1]
             end == stamps[i][2]
             speaker == stamps[i][3]
             next_start == stamps[i + 1][1]
             next_end == stamps[i + 1][2]
             next_speaker == stamps[i + 1][3]
         IN IF end > next_start
            THEN LET avg == Avg(next_start, end)
                 IN ContiguousLoop(
                        [stamps EXCEPT ![i + 1] = <<avg, next_end, next_speaker>>],
                        i + 1,
                        Append(contiguous_stamps, <<start, avg, speaker>>))
            ELSE ContiguousLoop(stamps, i + 1,
                                Append(contiguous_stamps, <<start, end, speaker>>))

\* The list the caller passed, as the call leaves it.
ContiguousMutated(stamps) == ContiguousLoop(stamps, 1, <<>>).stamps

\* The returned list (stamps non-empty: stamps[-1] raises IndexError otherwise).
GetContiguousStamps(stamps) ==
    LET r == ContiguousLoop(stamps, 1, <<>>)
    IN Append(r.out, r.stamps[Len(r.stamps)])

-----------------------------------------------------------------------------
(* merge_stamps (Phase B). *)

\* A plausible slip: the pair is dropped from the walk but the next segment
\* is not extended backward, and the segment is emitted anyway.
RECURSIVE MergeLoopNoFuse(_, _, _)
MergeLoopNoFuse(stamps, i, overlap_stamps) ==
    IF i > Len(stamps) - 1
    THEN [stamps |-> stamps, out |-> overlap_stamps]
    ELSE MergeLoopNoFuse(stamps, i + 1, Append(overlap_stamps, stamps[i]))

\* A plausible slip: the fused segment keeps the end of segment i instead
\* of the end of the next segment.
RECURSIVE MergeLoopWrongEnd(_, _, _)
MergeLoopWrongEnd(stamps, i, overlap_stamps) ==
    IF i > Len(stamps) - 1
    THEN [stamps |-> stamps, out |-> overlap_stamps]
    ELSE LET start == stamps[i][1]
             end == stamps[i][2]
             speaker == stamps[i][3]
             next_start == stamps[i + 1][1]
             next_speaker == stamps[i + 1][3]
         IN IF end = next_start /\ speaker = next_speaker
            THEN MergeLoopWrongEnd(
                     [stamps EXCEPT ![i + 1] = <<start, end, next_speaker>>],
                     i + 1, overlap_stamps)
            ELSE MergeLoopWrongEnd(stamps, i + 1,
                     Append(overlap_stamps, <<start, end, speaker>>))

RECURSIVE MergeLoop(_, _, _)
MergeLoop(stamps, i, overlap_stamps) ==
    IF i > Len(stamps) - 1
    THEN [stamps |-> stamps, out |-> overlap_stamps]
    ELSE LET start == stamps[i][1]
             end == stamps[i][2]
             speaker == stamps[i][3]
             next_start == stamps[i + 1][1]
             next_end == stamps[i + 1][2]
             next_speaker == stamps[i + 1][3]
         IN IF end = next_start /\ speaker = next_speaker
            THEN MergeLoop(
                     [stamps EXCEPT ![i + 1] = <<start, next_end, next_speaker>>],
                     i + 1, overlap_stamps)
            ELSE MergeLoop(stamps, i + 1,
                           Append(overlap_stamps, <<start, end, speaker>>))

\* A plausible slip: the last segment is never appended after the walk.
MergeStampsDropLast(stamps) == MergeLoop(stamps, 1, <<>>).out

MergeMutated(stamps) == MergeLoop(stamps, 1, <<>>).stamps

MergeStamps(stamps) ==
    LET r == MergeLoop(stamps, 1, <<>>)
    IN Append(r.out, r.stamps[Len(r.stamps)])

-----------------------------------------------------------------------------
(* The reconciliation steps of DiarizeService.__call__, lines 167-168, and  *)
(* a second application of both phases to the reconciled sequence.          *)

IdleReconcile ==
    /\ rc_pc = "idle"
    /\ rc_in = <<>>
    /\ rc_stamps = <<>>
    /\ rc_a = <<>>
    /\ rc_mid = <<>>
    /\ rc_out = <<>>
    /\ rc_a2 = <<>>
    /\ rc_out2 = <<>>

InitReconcileOnly ==
    /\ rc_pc = "clustered"
    /\ \/ \E n \in 0..MaxLen : rc_in \in OrderedStampSeqs(n)
       \/ rc_in \in Examples
    /\ rc_stamps = rc_in
    /\ rc_a = <<>>
    /\ rc_mid = <<>>
    /\ rc_out = <<>>
    /\ rc_a2 = <<>>
    /\ rc_out2 = <<>>

\* _outputs = self.get_contiguous_stamps(clustering_outputs)
PhaseA ==
    /\ rc_pc = "clustered"
    /\ Len(rc_in) > 0
    /\ rc_a' = GetContiguousStamps(rc_in)
    /\ rc_stamps' = ContiguousMutated(rc_in)
    /\ rc_mid' = rc_a'
    /\ rc_pc' = "contiguous"
    /\ UNCHANGED <<rc_in, rc_out, rc_a2, rc_out2>>
    /\ UNCHANGED notReconcile

\* stamps[-1] on an empty list raises IndexError.
PhaseAEmpty ==
    /\ rc_pc = "clustered"
    /\ Len(rc_in) = 0
    /\ rc_pc' = "IndexError"
    /\ UNCHANGED <<rc_in, rc_stamps, rc_a, rc_mid, rc_out, rc_a2, rc_out2>>
    /\ UNCHANGED notReconcile

\* outputs = self.merge_stamps(_outputs); return outputs
PhaseB ==
    /\ rc_pc = "contiguous"
    /\ rc_out' = MergeStamps(rc_a)
    /\ rc_mid' = MergeMutated(rc_a)
    /\ rc_pc' = "returned"
    /\ UNCHANGED <<rc_in, rc_stamps, rc_a, rc_a2, rc_out2>>
    /\ UNCHANGED notReconcile

\* The returned sequence handed to both phases again.
PhaseAAgain ==
    /\ rc_pc = "returned"
    /\ rc_a2' = GetContiguousStamps(rc_out)
    /\ rc_pc' = "contiguous2"
    /\ UNCHANGED <<rc_in, rc_stamps, rc_a, rc_mid, rc_out, rc_out2>>
    /\ UNCHANGED notReconcile

PhaseBAgain ==
    /\ rc_pc = "contiguous2"
    /\ rc_out2' = MergeStamps(rc_a2)
    /\ rc_pc' = "returned2"
    /\ UNCHANGED <<rc_in, rc_stamps, rc_a, rc_mid, rc_out, rc_a2>>
    /\ UNCHANGED notReconcile

NextReconcile == PhaseA \/ PhaseAEmpty \/ PhaseB \/ PhaseAAgain \/ PhaseBAgain

-----------------------------------------------------------------------------
(* TranscribeService.__call__, single audio (not a list).                   *)
(* A string is a sequence of one-character strings.                         *)

\* The vocab argument: None, or a list of strings.
NoVocab == [given |-> FALSE, words |-> <<>>]
VocabLists == {<<>>, << <<>> >>, << <<"a">> >>, << <<"a">>, <<"b">> >>,
               << <<" ">>, <<"a">> >>, << <<"a">>, <<>> >>, << <<>>, <<"a">> >>}
Vocabs == {NoVocab} \cup {[given |-> TRUE, words |-> w] : w \in VocabLists}

\* The prompt: None, or a string.
NoPrompt == [given |-> FALSE, text |-> <<>>]

RECURSIVE LStrip(_)
LStrip(str) ==
    IF Len(str) > 0 /\ Head(str) = " " THEN LStrip(Tail(str)) ELSE str

RECURSIVE RStrip(_)
RStrip(str) ==
    IF Len(str) > 0 /\ str[Len(str)] = " "
    THEN RStrip(SubSeq(str, 1, Len(str) - 1))
    ELSE str

\* str.strip()
Strip(str) == LStrip(RStrip(str))

\* ", ".join(vocab)
RECURSIVE Join(_)
Join(vocab) ==
    IF Len(vocab) = 0 THEN <<>>
    ELSE IF Len(vocab) = 1 THEN vocab[1]
    ELSE vocab[1] \o <<",", " ">> \o Join(Tail(vocab))

\* lines 161-170: the prompt
Prompt(vocab) ==
    IF vocab.given /\ Len(vocab.words) > 0 /\ Len(Strip(vocab.words[1])) > 0
    THEN [given |-> TRUE,
          text |-> <<"V", "o", "c", "a", "b", ":", " ">>
                      \o Strip(Join(vocab.words))]
    ELSE NoPrompt

\* A segment of the model is a named tuple, here <<start, end, text>>.
ModelSegments == {<<0, 2, "s1">>, <<2, 4, "s2">>}

RECURSIVE SegmentLists(_)
SegmentLists(n) ==
    IF n = 0 THEN {<<>>}
    ELSE {Append(q, g) : q \in SegmentLists(n - 1), g \in ModelSegments}

\* What one call of self.model.transcribe may yield.
ModelResults == UNION {SegmentLists(n) : n \in 0..MaxSegments}

\* The outcome of a pass: not made, raised by the model, or its segments.
NoPass == [st |-> "none", segments |-> <<>>]
Raised == [st |-> "raised", segments |-> <<>>]
Returned(segments) == [st |-> "returned", segments |-> segments]

\* segment._asdict()
AsDict(segment) ==
    [start |-> segment[1], end |-> segment[2], text |-> segment[3]]

\* A plausible slip: testing the generator the model returns, which is
\* always truthy, instead of the list made of it.
NeedsFallbackOnGenerator(segments) == FALSE

\* line 198: if not segments
NeedsFallback(segments) == Len(segments) = 0

\* A plausible slip: the retry passes the caller's options through.
FallbackOptionsPassThrough(args) ==
    [vad_filter |-> args.internal_vad,
     suppress_blank |-> args.suppress_blank,
     word_timestamps |-> args.word_timestamps,
     vad_parameters |-> FALSE]

\* lines 211-213: the options of the retry pass (no vad_parameters given)
FallbackOptions(args) ==
    [vad_filter |-> IF args.internal_vad THEN FALSE ELSE TRUE,
     suppress_blank |-> FALSE,
     word_timestamps |-> TRUE,
     vad_parameters |-> FALSE]

\* lines 185-194: the options of the first pass
FirstPassOptions(args) ==
    [vad_filter |-> args.internal_vad,
     suppress_blank |-> args.suppress_blank,
     word_timestamps |-> args.word_timestamps,
     vad_parameters |-> TRUE]

\* A plausible slip: the retry's result is bound to another name and the
\* outputs are still built from the first pass.
SegmentsForOutputKeepFirst(first, second) ==
    first.segments

\* lines 197-216: the segments the outputs are built from
SegmentsForOutput(first, second) ==
    IF second.st = "none" THEN first.segments ELSE second.segments

\* line 216: outputs = [segment._asdict() for segment in segments]
Outputs(segments) == [i \in 1..Len(segments) |-> AsDict(segments[i])]

\* lines 71-76: self.model, the one WhisperModel built over device_index
SelfModel == [device_index |-> DeviceIndex]

\* lines 176, 202: the call goes to self.model, whatever model_index is
ModelFor(model_index) == SelfModel

\* lines 176-179, 202-205: what both passes hand to the model
TranscribeCall(args) ==
    [model |-> ModelFor(args.model_index), initial_prompt |-> Prompt(args.vocab)]

EmptyWarning == "Empty transcription result. Trying with vad_filter=True."

IdleTranscribe ==
    /\ tr_pc = "idle"
    /\ tr_args = [vocab |-> NoVocab, model_index |-> 0, internal_vad |-> FALSE,
                  suppress_blank |-> FALSE, word_timestamps |-> FALSE]
    /\ tr_calls = <<>>
    /\ tr_first = NoPass
    /\ tr_second = NoPass
    /\ tr_outputs = <<>>
    /\ tr_log = <<>>

InitTranscribeOnly ==
    /\ tr_pc = "called"
    /\ tr_args \in [vocab : Vocabs, model_index : DeviceIndex,
                    internal_vad : BOOLEAN,
                    suppress_blank : BOOLEAN, word_timestamps : BOOLEAN]
    /\ tr_calls = <<>>
    /\ tr_first = NoPass
    /\ tr_second = NoPass
    /\ tr_outputs = <<>>
    /\ tr_log = <<>>

\* lines 161-197: the prompt, the first pass and segments = list(segments)
FirstPass ==
    /\ tr_pc = "called"
    /\ tr_calls' = Append(tr_calls,
           TranscribeCall(tr_args) @@ FirstPassOptions(tr_args))
    /\ \E result \in ModelResults :
         /\ tr_first' = Returned(result)
         /\ IF NeedsFallback(result)
            THEN /\ tr_log' = Append(tr_log, EmptyWarning)
                 /\ tr_pc' = "retrying"
            ELSE /\ tr_log' = tr_log
                 /\ tr_pc' = "transcribed"
    /\ UNCHANGED <<tr_args, tr_second, tr_outputs>>
    /\ UNCHANGED notTranscribe

\* the model raises in the first pass: the exception leaves __call__
FirstPassRaises ==
    /\ tr_pc = "called"
    /\ tr_calls' = Append(tr_calls,
           TranscribeCall(tr_args) @@ FirstPassOptions(tr_args))
    /\ tr_first' = Raised
    /\ tr_pc' = "raised"
    /\ UNCHANGED <<tr_args, tr_second, tr_outputs, tr_log>>
    /\ UNCHANGED notTranscribe

\* lines 202-214: the retry pass
Fallback ==
    /\ tr_pc = "retrying"
    /\ tr_calls' = Append(tr_calls,
           TranscribeCall(tr_args) @@ FallbackOptions(tr_args))
    /\ \E result \in ModelResults : tr_second' = Returned(result)
    /\ tr_pc' = "transcribed"
    /\ UNCHANGED <<tr_args, tr_first, tr_outputs, tr_log>>
    /\ UNCHANGED notTranscribe

FallbackRaises ==
    /\ tr_pc = "retrying"
    /\ tr_calls' = Append(tr_calls,
           TranscribeCall(tr_args) @@ FallbackOptions(tr_args))
    /\ tr_second' = Raised
    /\ tr_pc' = "raised"
    /\ UNCHANGED <<tr_args, tr_first, tr_outputs, tr_log>>
    /\ UNCHANGED notTranscribe

\* lines 216 and 237: build the outputs and return them
ReturnOutputs ==
    /\ tr_pc = "transcribed"
    /\ tr_outputs' = Outputs(SegmentsForOutput(tr_first, tr_second))
    /\ tr_pc' = "returned"
    /\ UNCHANGED <<tr_args, tr_calls, tr_first, tr_second, tr_log>>
    /\ UNCHANGED notTranscribe

NextTranscribe ==
    FirstPass \/ FirstPassRaises \/ Fallback \/ FallbackRaises \/ ReturnOutputs

-----------------------------------------------------------------------------
(* DiarizeService: construction and __call__.                               *)

TierOneLimit == 3600    \* seconds: if audio_duration < 3600
TierTwoLimit == 10800   \* seconds: elif audio_duration < 10800


\* Configured lists of n entries (hundredths of a second; weights are ints).
SampleWindows(n) == [k \in 1..n |-> 50 * (n - k + 1)]
SampleShifts(n) == [k \in 1..n |-> 25 * (n - k + 1)]
SampleWeights(n) == [k \in 1..n |-> k]

Configs ==
    {[window_lengths |-> SampleWindows(nw),
      shift_lengths |-> SampleShifts(ns),
      multiscale_weights |-> SampleWeights(nk)] :
        nw \in 1..MaxScales, ns \in 1..MaxScales, nk \in 1..MaxScales}

\* Audio durations, in tenths of a second, on both sides of each threshold.
Durations == {0, 600, 35999, 36000, 36001, 107999, 108000, 108001, 200000}

\* zip(a, b, strict=True) raises ValueError unless the lengths agree.
ZipStrictOk(a, b) == Len(a) = Len(b)
\* {k: (w, s) for k, (w, s) in enumerate(zip(a, b, strict=True))}: entry
\* k + 1 of the sequence is the value at key k.
ScaleDict(a, b) == [k \in 1..Len(a) |-> <<a[k], b[k]>>]

\* lines 76-81
DefaultBatchSize(multiscale_weights) ==
    IF Len(multiscale_weights) > 3 THEN 64
    ELSE IF Len(multiscale_weights) > 1 THEN 128
    ELSE 256

LongWindows == <<300, 250, 200, 150, 100>>
VeryLongWindows == <<300, 200, 100>>
VeryLongShifts == <<75, 50, 25>>
VeryLongWeights == <<1, 1, 1>>

\* A plausible slip: the thresholds taken inclusive.
TierInclusive(audio_duration) ==
    IF audio_duration <= TierOneLimit * 10 THEN "default"
    ELSE IF audio_duration <= TierTwoLimit * 10 THEN "long"
    ELSE "very_long"

\* lines 126, 130, 143: the branch taken (audio_duration in tenths)
Tier(audio_duration) ==
    IF audio_duration < TierOneLimit * 10 THEN "default"
    ELSE IF audio_duration < TierTwoLimit * 10 THEN "long"
    ELSE "very_long"

\* lines 130-140: the zip of the long tier may raise ValueError
SelectRaises(self, audio_duration) ==
    /\ Tier(audio_duration) = "long"
    /\ ~ZipStrictOk(LongWindows, self.default_shift_lengths)

\* lines 126-151: scale_dict, segmentation_batch_size, multiscale_weights
Select(self, audio_duration) ==
    CASE Tier(audio_duration) = "default" ->
           [scale_dict |-> self.default_scale_dict,
            batch_size |-> self.default_segmentation_batch_size,
            multiscale_weights |-> self.default_multiscale_weights]
      [] Tier(audio_duration) = "long" ->
           [scale_dict |-> ScaleDict(LongWindows, self.default_shift_lengths),
            batch_size |-> 64,
            multiscale_weights |-> self.default_multiscale_weights]
      [] OTHER ->
           [scale_dict |-> ScaleDict(VeryLongWindows, VeryLongShifts),
            batch_size |-> 32,
            multiscale_weights |-> VeryLongWeights]

\* An invocation of a collaborator: which one, and on which replica's
\* models (none for the VAD service and the static reconciler).
Invoked(op, on) == [op |-> op, on |-> on]

\* A plausible slip: the empty-audio test left out.
IsEmptyAudioNever(speech) == FALSE

\* line 123: len(vad_outputs) == 0; speech tells that VAD found intervals
IsEmptyAudio(speech) == ~speech

NoSelf ==
    [default_window_lengths |-> <<>>, default_shift_lengths |-> <<>>,
     default_multiscale_weights |-> <<>>, default_segmentation_batch_size |-> 0,
     default_scale_dict |-> <<>>, models |-> {}]
NoCall == [audio_duration |-> 0, model_index |-> 0, speech |-> FALSE,
           clustering_outputs |-> <<>>]
NoSeg == [called |-> FALSE, replica |-> 0, batch_size |-> 0,
          scale_dict |-> <<>>, multiscale_weights |-> <<>>]
NoResult == [kind |-> "none", outputs |-> <<>>]

\* What the clustering module may return to a call.
CallClusteringOutputs ==
    {<<>>, << <<0, 8, 0>> >>, ExampleOverlap, ExampleTouching}

IdleDiarize ==
    /\ dz_pc = "idle"
    /\ dz_cfg = [window_lengths |-> <<>>, shift_lengths |-> <<>>,
                 multiscale_weights |-> <<>>]
    /\ dz_self = NoSelf
    /\ dz_call = NoCall
    /\ dz_trace = <<>>
    /\ dz_seg = NoSeg
    /\ dz_result = NoResult

InitDiarizeOnly ==
    /\ dz_pc = "new"
    /\ dz_cfg \in Configs
    /\ dz_self = NoSelf
    /\ dz_call = NoCall
    /\ dz_trace = <<>>
    /\ dz_seg = NoSeg
    /\ dz_result = NoResult

\* __init__, lines 68-98
Construct ==
    /\ dz_pc = "new"
    /\ ZipStrictOk(dz_cfg.window_lengths, dz_cfg.shift_lengths)
    /\ dz_self' =
         [default_window_lengths |-> dz_cfg.window_lengths,
          default_shift_lengths |-> dz_cfg.shift_lengths,
          default_multiscale_weights |-> dz_cfg.multiscale_weights,
          default_segmentation_batch_size |->
              DefaultBatchSize(dz_cfg.multiscale_weights),
          default_scale_dict |->
              ScaleDict(dz_cfg.window_lengths, dz_cfg.shift_lengths),
          models |-> DeviceIndex]
    /\ dz_pc' = "ready"
    /\ UNCHANGED <<dz_cfg, dz_call, dz_trace, dz_seg, dz_result>>
    /\ UNCHANGED notDiarize

\* __init__, lines 83-86: zip(..., strict=True) raises ValueError
ConstructRaises ==
    /\ dz_pc = "new"
    /\ ~ZipStrictOk(dz_cfg.window_lengths, dz_cfg.shift_lengths)
    /\ dz_pc' = "init_error"
    /\ UNCHANGED <<dz_cfg, dz_self, dz_call, dz_trace, dz_seg, dz_result>>
    /\ UNCHANGED notDiarize

\* __call__, lines 121-124: VAD; an empty vad_outputs returns None
CallVad ==
    /\ dz_pc \in {"ready", "returned", "call_error"}
    /\ \E d \in Durations, idx \in DeviceIndex, speech \in BOOLEAN :
         /\ dz_call' = [audio_duration |-> d, model_index |-> idx,
                        speech |-> speech, clustering_outputs |-> <<>>]
         /\ dz_pc' = IF IsEmptyAudio(speech) THEN "returned" ELSE "vad_done"
         /\ dz_result' = IF ~IsEmptyAudio(speech) THEN NoResult
                         ELSE [kind |-> "None", outputs |-> <<>>]
    /\ dz_trace' = <<Invoked("vad", {})>>
    /\ dz_seg' = NoSeg
    /\ UNCHANGED <<dz_cfg, dz_self>>
    /\ UNCHANGED notDiarize

\* __call__, lines 126-161: the tier's parameters, handed to segmentation
Segmentation ==
    /\ dz_pc = "vad_done"
    /\ ~SelectRaises(dz_self, dz_call.audio_duration)
    /\ LET sel == Select(dz_self, dz_call.audio_duration)
       IN dz_seg' = [called |-> TRUE, replica |-> dz_call.model_index,
                     batch_size |-> sel.batch_size,
                     scale_dict |-> sel.scale_dict,
                     multiscale_weights |-> sel.multiscale_weights]
    /\ dz_trace' = Append(dz_trace,
                          Invoked("segmentation", {dz_call.model_index}))
    /\ dz_pc' = "segmented"
    /\ UNCHANGED <<dz_cfg, dz_self, dz_call, dz_result>>
    /\ UNCHANGED notDiarize

\* __call__, lines 131-140: the zip of the long tier raises ValueError
SelectionRaises ==
    /\ dz_pc = "vad_done"
    /\ SelectRaises(dz_self, dz_call.audio_duration)
    /\ dz_pc' = "call_error"
    /\ dz_result' = [kind |-> "ValueError", outputs |-> <<>>]
    /\ UNCHANGED <<dz_cfg, dz_self, dz_call, dz_trace, dz_seg>>
    /\ UNCHANGED notDiarize

\* __call__, lines 163-165
Clustering ==
    /\ dz_pc = "segmented"
    /\ \E out \in CallClusteringOutputs :
         dz_call' = [dz_call EXCEPT !.clustering_outputs = out]
    /\ dz_trace' = Append(dz_trace,
                          Invoked("clustering", {dz_call.model_index}))
    /\ dz_pc' = "clustered"
    /\ UNCHANGED <<dz_cfg, dz_self, dz_seg, dz_result>>
    /\ UNCHANGED notDiarize

\* __call__, lines 167-170: both phases, and the return
Reconcile ==
    /\ dz_pc = "clustered"
    /\ dz_trace' = Append(dz_trace, Invoked("reconcile", {}))
    /\ IF Len(dz_call.clustering_outputs) = 0
       THEN /\ dz_pc' = "call_error"
            /\ dz_result' = [kind |-> "IndexError", outputs |-> <<>>]
       ELSE /\ dz_pc' = "returned"
            /\ dz_result' =
                 [kind |-> "outputs",
                  outputs |-> MergeStamps(
                      GetContiguousStamps(dz_call.clustering_outputs))]
    /\ UNCHANGED <<dz_cfg, dz_self, dz_call, dz_seg>>
    /\ UNCHANGED notDiarize

NextDiarize ==
    \/ Construct \/ ConstructRaises \/ CallVad \/ Segmentation
    \/ SelectionRaises \/ Clustering \/ Reconcile

-----------------------------------------------------------------------------
(* DeviceModelPool and the JobOrchestrator state machine.  The service that *)
(* implements them (wordcab_transcribe.services.asr_service) is imported by *)
(* dependencies.py and called by the endpoints; the model follows sections  *)
(* 4.1, 4.6 and 5 of the specification.                                     *)

Jobs == 1..NumJobs
NonTerminal == {"Queued", "SlotAcquired", "Running", "Reconciling"}
Terminal == {"Completed", "Failed", "Cancelled"}
Holding == {"SlotAcquired", "Running", "Reconciling"}

NoEvent == [job |-> 0, kind |-> "none", replicas |-> {}]

\* A slip: acquire selects among all replicas, busy ones included.
GrantableAny(free) == DeviceIndex

\* acquire selects any free replica and never creates one
Grantable(free) == free

\* A slip: the error path returns without giving the replica back.
ReleaseLeaks(free, held) == free

\* release(slot) returns the replica to the free set
Release(free, held) == free \cup held

IdlePool ==
    /\ pl_free = {}
    /\ pl_lease = <<>>
    /\ pl_state = <<>>
    /\ pl_last = NoEvent

\* The pool as constructed from the configured device index list, every
\* job queued.
InitPoolOnly ==
    /\ pl_free = DeviceIndex
    /\ pl_lease = [j \in Jobs |-> {}]
    /\ pl_state = [j \in Jobs |-> "Queued"]
    /\ pl_last = NoEvent

\* Queued -> SlotAcquired: acquire() suspends until a replica is free
Acquire(j) ==
    /\ pl_state[j] = "Queued"
    /\ \E r \in Grantable(pl_free) :
         /\ pl_free' = pl_free \ {r}
         /\ pl_lease' = [pl_lease EXCEPT ![j] = {r}]
         /\ pl_last' = [job |-> j, kind |-> "acquire", replicas |-> {r}]
    /\ pl_state' = [pl_state EXCEPT ![j] = "SlotAcquired"]
    /\ UNCHANGED notPool

\* cancellation while suspended on acquire: no replica is held
CancelQueued(j) ==
    /\ pl_state[j] = "Queued"
    /\ pl_state' = [pl_state EXCEPT ![j] = "Cancelled"]
    /\ pl_last' = [job |-> j, kind |-> "cancel", replicas |-> {}]
    /\ UNCHANGED <<pl_free, pl_lease>>
    /\ UNCHANGED notPool

\* SlotAcquired -> DiarizationRunning / TranscriptionRunning
StartModels(j) ==
    /\ pl_state[j] = "SlotAcquired"
    /\ pl_state' = [pl_state EXCEPT ![j] = "Running"]
    /\ pl_last' = [job |-> j, kind |-> "start", replicas |-> pl_lease[j]]
    /\ UNCHANGED <<pl_free, pl_lease>>
    /\ UNCHANGED notPool

\* empty audio: the designed early return, straight to Completed
EmptyAudio(j) ==
    /\ pl_state[j] = "SlotAcquired"
    /\ pl_state' = [pl_state EXCEPT ![j] = "Completed"]
    /\ pl_free' = Release(pl_free, pl_lease[j])
    /\ pl_lease' = [pl_lease EXCEPT ![j] = {}]
    /\ pl_last' = [job |-> j, kind |-> "empty", replicas |-> pl_lease[j]]
    /\ UNCHANGED notPool

\* the models have answered: -> Reconciling
ModelsDone(j) ==
    /\ pl_state[j] = "Running"
    /\ pl_state' = [pl_state EXCEPT ![j] = "Reconciling"]
    /\ pl_last' = [job |-> j, kind |-> "models_done", replicas |-> pl_lease[j]]
    /\ UNCHANGED <<pl_free, pl_lease>>
    /\ UNCHANGED notPool

\* Reconciling -> Completed: the slot is released with the result
Complete(j) ==
    /\ pl_state[j] = "Reconciling"
    /\ pl_state' = [pl_state EXCEPT ![j] = "Completed"]
    /\ pl_free' = Release(pl_free, pl_lease[j])
    /\ pl_lease' = [pl_lease EXCEPT ![j] = {}]
    /\ pl_last' = [job |-> j, kind |-> "complete", replicas |-> pl_lease[j]]
    /\ UNCHANGED notPool

\* a model invocation fails, or the job is cancelled, while it holds a
\* slot: -> Failed, the slot released always
Fail(j) ==
    /\ pl_state[j] \in Holding
    /\ pl_state' = [pl_state EXCEPT ![j] = "Failed"]
    /\ pl_free' = Release(pl_free, pl_lease[j])
    /\ pl_lease' = [pl_lease EXCEPT ![j] = {}]
    /\ pl_last' = [job |-> j, kind |-> "fail", replicas |-> pl_lease[j]]
    /\ UNCHANGED notPool

NextPool ==
    \E j \in Jobs :
        \/ Acquire(j) \/ CancelQueued(j) \/ StartModels(j) \/ EmptyAudio(j)
        \/ ModelsDone(j) \/ Complete(j) \/ Fail(j)

-----------------------------------------------------------------------------
(* utils.early_return: the result for an audio file without speech.         *)

EmptyAudioDurations == 0..MaxDuration

\* A plausible slip: the placeholder utterance ends where it starts.
EarlyReturnZeroEnd(duration) ==
    << << [text |-> "<EMPTY AUDIO>", start |-> 0, end |-> 0,
           speaker |-> "None", words |-> "None"] >>,
       [total |-> 0, transcription |-> 0, diarization |-> "None",
        post_processing |-> 0],
       duration >>

\* lines 399-416: (utterances, process times, audio duration)
early_return(duration) ==
    << << [text |-> "<EMPTY AUDIO>", start |-> 0, end |-> duration,
           speaker |-> "None", words |-> "None"] >>,
       [total |-> 0, transcription |-> 0, diarization |-> "None",
        post_processing |-> 0],
       duration >>

IdleEarlyReturn ==
    /\ er_pc = "idle"
    /\ er_duration = 0
    /\ er_result = <<>>

InitEarlyReturnOnly ==
    /\ er_pc = "called"
    /\ er_duration \in EmptyAudioDurations
    /\ er_result = <<>>

EarlyReturn ==
    /\ er_pc = "called"
    /\ er_result' = early_return(er_duration)
    /\ er_pc' = "returned"
    /\ UNCHANGED er_duration
    /\ UNCHANGED notEarlyReturn

NextEarlyReturn == EarlyReturn

-----------------------------------------------------------------------------
(* TranscribeService.__call__ on a list of audios, and multi_channel.       *)

\* A word of the model: start, end, word, probability.
Word(start, end, word) ==
    [start |-> start, end |-> end, word |-> word, probability |-> 1]

\* Segments of the model with their words.  The boundaries the model gives
\* a segment need not be those of its words, nor are words always present.
SegTwoWords ==
    [start |-> 0, end |-> 5, text |-> " a b",
     words |-> <<Word(1, 2, " a"), Word(2, 4, " b")>>]
SegOneWord ==
    [start |-> 5, end |-> 7, text |-> " c", words |-> <<Word(6, 7, " c")>>]
SegUnordered ==
    [start |-> 1, end |-> 4, text |-> " b a",
     words |-> <<Word(3, 4, " b"), Word(1, 2, " a")>>]
SegNoWords ==
    [start |-> 7, end |-> 8, text |-> "", words |-> <<>>]

\* What one call of self.model.transcribe may yield for a channel.
ChannelResults ==
    { <<>>, <<SegTwoWords>>, <<SegTwoWords, SegOneWord>>, <<SegUnordered>>,
      <<SegNoWords>>, <<SegOneWord, SegNoWords>> }

\* The k-th audio of the list.
ChannelAudio(k) == <<"audio", k>>
AudioLists == {[i \in 1..n |-> ChannelAudio(i - 1)] : n \in 0..MaxChannels}

\* A plausible slip: enumerate(audio, start=1).
EnumerateFromOne(audio) == [i \in 1..Len(audio) |-> <<i, audio[i]>>]

\* line 220: enumerate(audio), the pairs (audio_index, audio_file)
Enumerate(audio) == [i \in 1..Len(audio) |-> <<i - 1, audio[i]>>]

\* lines 338-357: the options of the one call multi_channel makes
MultiChannelOptions(args) ==
    [vad_filter |-> args.internal_vad,
     suppress_blank |-> args.suppress_blank,
     word_timestamps |-> args.word_timestamps,
     vad_parameters |-> TRUE,
     condition_on_previous_text |-> FALSE]

\* lines 368-376: the words of a segment_dict
WordDicts(words) ==
    [i \in 1..Len(words) |->
        [start |-> words[i].start, end |-> words[i].end,
         word |-> words[i].word, score |-> words[i].probability]]

\* A plausible slip: the segment keeps the model's own boundaries.
SegmentDictNativeBounds(segment, speaker_id) ==
    [start |-> segment.start,
     end |-> segment.end,
     text |-> segment.text,
     words |-> WordDicts(segment.words),
     speaker |-> speaker_id]

\* lines 360-379: the segment_dict of a segment that has words
SegmentDict(segment, speaker_id) ==
    [start |-> WordDicts(segment.words)[1].start,
     end |-> WordDicts(segment.words)[Len(segment.words)].end,
     text |-> segment.text,
     words |-> WordDicts(segment.words),
     speaker |-> speaker_id]

\* line 378: segment_dict["words"][0] of an empty list raises IndexError
RaisesIndexError(segments) ==
    \E i \in 1..Len(segments) : Len(segments[i].words) = 0

\* lines 359-383: final_transcript, when no segment raises
FinalTranscript(segments, speaker_id) ==
    [i \in 1..Len(segments) |-> SegmentDict(segments[i], speaker_id)]

\* lines 222-234, 338-357: one call of multi_channel and the call of the
\* model it makes
ChannelCall(pair, args, prompt, outcome) ==
    [audio |-> pair[2], speaker_id |-> pair[1], initial_prompt |-> prompt,
     options |-> MultiChannelOptions(args), outcome |-> outcome]

IdleMultiChannel ==
    /\ mc_pc = "idle"
    /\ mc_args = [vocab |-> NoVocab, audio |-> <<>>, internal_vad |-> FALSE,
                  suppress_blank |-> FALSE, word_timestamps |-> FALSE]
    /\ mc_prompt = NoPrompt
    /\ mc_calls = <<>>
    /\ mc_outputs = <<>>
    /\ mc_error = "none"

InitMultiChannelOnly ==
    /\ mc_pc = "called"
    /\ mc_args \in [vocab : Vocabs, audio : AudioLists, internal_vad : BOOLEAN,
                    suppress_blank : BOOLEAN, word_timestamps : BOOLEAN]
    /\ mc_prompt = NoPrompt
    /\ mc_calls = <<>>
    /\ mc_outputs = <<>>
    /\ mc_error = "none"

\* lines 161-172, 218-219: the prompt, then outputs = []
ComputePrompt ==
    /\ mc_pc = "called"
    /\ mc_prompt' = Prompt(mc_args.vocab)
    /\ mc_outputs' = <<>>
    /\ mc_pc' = "looping"
    /\ UNCHANGED <<mc_args, mc_calls, mc_error>>
    /\ UNCHANGED notMultiChannel

\* lines 220-235: one turn of the loop, multi_channel (lines 333-383) whole
MultiChannel ==
    /\ mc_pc = "looping"
    /\ Len(mc_outputs) < Len(mc_args.audio)
    /\ \E segments \in ChannelResults :
         LET pair == Enumerate(mc_args.audio)[Len(mc_outputs) + 1] IN
         /\ mc_calls' = Append(mc_calls,
                ChannelCall(pair, mc_args, mc_prompt, Returned(segments)))
         /\ IF RaisesIndexError(segments)
            THEN /\ mc_error' = "IndexError"
                 /\ mc_pc' = "raised"
                 /\ mc_outputs' = mc_outputs
            ELSE /\ mc_error' = mc_error
                 /\ mc_pc' = "looping"
                 /\ mc_outputs' =
                       Append(mc_outputs, FinalTranscript(segments, pair[1]))
    /\ UNCHANGED <<mc_args, mc_prompt>>
    /\ UNCHANGED notMultiChannel

\* the model raises inside multi_channel: the exception leaves __call__
MultiChannelModelRaises ==
    /\ mc_pc = "looping"
    /\ Len(mc_outputs) < Len(mc_args.audio)
    /\ LET pair == Enumerate(mc_args.audio)[Len(mc_outputs) + 1] IN
         mc_calls' = Append(mc_calls,
                ChannelCall(pair, mc_args, mc_prompt, Raised))
    /\ mc_error' = "ModelError"
    /\ mc_pc' = "raised"
    /\ UNCHANGED <<mc_args, mc_prompt, mc_outputs>>
    /\ UNCHANGED notMultiChannel

\* line 237: return outputs
ReturnChannelOutputs ==
    /\ mc_pc = "looping"
    /\ Len(mc_outputs) = Len(mc_args.audio)
    /\ mc_pc' = "returned"
    /\ UNCHANGED <<mc_args, mc_prompt, mc_calls, mc_outputs, mc_error>>
    /\ UNCHANGED notMultiChannel

NextMultiChannel ==
    ComputePrompt \/ MultiChannel \/ MultiChannelModelRaises
        \/ ReturnChannelOutputs

-----------------------------------------------------------------------------
(* inference_with_youtube: the requests and the download_limit semaphore.   *)
(* A request is the state of one run of the handler; the requests carry no  *)
(* identity, so they are kept as a bag.                                     *)

\* download_limit = asyncio.Semaphore(10)
DownloadLimit == 10

NoResponse == [status |-> 0, utterances |-> FALSE, detail |-> ""]

\* result before "result = await task" has returned
NotProcessed == [exception |-> FALSE, text |-> "not processed"]

\* A request that has not reached the handler yet.
NewRequest ==
    [pc |-> "new", filepath |-> FALSE, result |-> NotProcessed,
     releases |-> 0, deletes |-> 0, response |-> NoResponse]

\* What asr.process_input may return: (utterances, audio_duration), or an
\* exception object.
ProcessResults ==
    { [exception |-> FALSE, text |-> ""],
      [exception |-> TRUE, text |-> "error"] }

\* A plausible slip: the semaphore never makes a caller wait.
LockedNever(value) == FALSE

\* A plausible slip: the semaphore makes every caller wait.
LockedAlways(value) == TRUE

\* line 47: entering "async with download_limit" suspends when no permit
\* is left
Locked(value) == value = 0

\* A plausible slip: leaving the block gives no permit back.
SemReleaseLeaks(value) == value

\* leaving "async with download_limit": the permit is given back
SemRelease(value) == value + 1

\* A plausible slip: the block ends after the download, before processing.
InsideAsyncWithDownloadOnly(pc) == pc = "downloading"

\* lines 47-68: the awaits inside "async with download_limit"
InsideAsyncWith(pc) == pc \in {"downloading", "processing"}

\* A plausible slip: an exception object is unpacked like a result.
ResponseIgnoresError(result) ==
    [status |-> 200, utterances |-> TRUE, detail |-> ""]

\* lines 72-94: HTTPException(500, detail=str(result)), or the response
Response(result) ==
    IF result.exception
    THEN [status |-> 500, utterances |-> FALSE, detail |-> result.text]
    ELSE [status |-> 200, utterances |-> TRUE, detail |-> ""]

\* An exception leaves the handler: the framework answers 500.
Unhandled == [status |-> 500, utterances |-> FALSE, detail |-> "unhandled"]

\* One request of the bag goes from state r to state q.
Moved(reqs, r, q) == (reqs (-) SetToBag({r})) (+) SetToBag({q})

\* The request leaves "async with download_limit" from the await at pc.
Exited(r, pc) ==
    IF InsideAsyncWith(pc) THEN [r EXCEPT !.releases = @ + 1] ELSE r
ValueOnExit(value, pc) ==
    IF InsideAsyncWith(pc) THEN SemRelease(value) ELSE value

IdleYouTube ==
    /\ yt_value = DownloadLimit
    /\ yt_reqs = EmptyBag

InitYouTubeOnly ==
    /\ yt_value = DownloadLimit
    /\ yt_reqs = [r \in {NewRequest} |-> NumRequests]

\* lines 45-47: a request reaches "async with download_limit"; it takes a
\* permit and starts the download, or suspends
Arrive ==
    /\ \E r \in BagToSet(yt_reqs) :
         /\ r.pc = "new"
         /\ IF Locked(yt_value)
            THEN /\ yt_reqs' = Moved(yt_reqs, r, [r EXCEPT !.pc = "waiting"])
                 /\ yt_value' = yt_value
            ELSE /\ yt_reqs' = Moved(yt_reqs, r, [r EXCEPT !.pc = "downloading"])
                 /\ yt_value' = yt_value - 1
    /\ UNCHANGED notYouTube

\* line 47: a suspended request is resumed with a permit
Resume ==
    /\ \E r \in BagToSet(yt_reqs) :
         /\ r.pc = "waiting"
         /\ ~Locked(yt_value)
         /\ yt_reqs' = Moved(yt_reqs, r, [r EXCEPT !.pc = "downloading"])
         /\ yt_value' = yt_value - 1
    /\ UNCHANGED notYouTube

\* lines 48-68: the download returns the file path and the request awaits
\* the task of asr.process_input
DownloadReturns ==
    /\ \E r \in BagToSet(yt_reqs) :
         /\ r.pc = "downloading"
         /\ yt_reqs' = Moved(yt_reqs, r,
               IF InsideAsyncWith("processing")
               THEN [r EXCEPT !.pc = "processing", !.filepath = TRUE]
               ELSE [r EXCEPT !.pc = "processing", !.filepath = TRUE,
                              !.releases = @ + 1])
         /\ yt_value' = IF InsideAsyncWith("processing")
                        THEN yt_value ELSE SemRelease(yt_value)
    /\ UNCHANGED notYouTube

\* line 48: the download raises; the block is left and the exception
\* leaves the handler
DownloadRaises ==
    /\ \E r \in BagToSet(yt_reqs) :
         /\ r.pc = "downloading"
         /\ yt_reqs' = Moved(yt_reqs, r,
               [Exited(r, "downloading") EXCEPT
                    !.pc = "responded", !.response = Unhandled])
         /\ yt_value' = ValueOnExit(yt_value, "downloading")
    /\ UNCHANGED notYouTube

\* lines 68-94: the task returns; the block is left, the deletion of the
\* file is scheduled and the request is answered
ProcessReturns ==
    /\ \E r \in BagToSet(yt_reqs), result \in ProcessResults :
         /\ r.pc = "processing"
         /\ yt_reqs' = Moved(yt_reqs, r,
               [Exited(r, "processing") EXCEPT
                    !.pc = "responded", !.result = result,
                    !.deletes = @ + 1, !.response = Response(result)])
         /\ yt_value' = ValueOnExit(yt_value, "processing")
    /\ UNCHANGED notYouTube

\* line 68: the task raises; the block is left and the exception leaves
\* the handler before line 70
ProcessRaises ==
    /\ \E r \in BagToSet(yt_reqs) :
         /\ r.pc = "processing"
         /\ yt_reqs' = Moved(yt_reqs, r,
               [Exited(r, "processing") EXCEPT
                    !.pc = "responded", !.response = Unhandled])
         /\ yt_value' = ValueOnExit(yt_value, "processing")
    /\ UNCHANGED notYouTube

NextYouTube ==
    Arrive \/ Resume \/ DownloadReturns \/ DownloadRaises
        \/ ProcessReturns \/ ProcessRaises

-----------------------------------------------------------------------------
(* Specifications: one per component, the other components idle. *)

InitReconcile ==
    InitReconcileOnly /\ IdleTranscribe /\ IdleDiarize /\ IdlePool /\ IdleEarlyReturn
        /\ IdleMultiChannel /\ IdleYouTube
SpecReconcile == InitReconcile /\ [][NextReconcile]_vars

InitTranscribe ==
    InitTranscribeOnly /\ IdleReconcile /\ IdleDiarize /\ IdlePool /\ IdleEarlyReturn
        /\ IdleMultiChannel /\ IdleYouTube
SpecTranscribe == InitTranscribe /\ [][NextTranscribe]_vars

InitDiarize ==
    InitDiarizeOnly /\ IdleReconcile /\ IdleTranscribe /\ IdlePool /\ IdleEarlyReturn
        /\ IdleMultiChannel /\ IdleYouTube
SpecDiarize == InitDiarize /\ [][NextDiarize]_vars

InitPool ==
    InitPoolOnly /\ IdleReconcile /\ IdleTranscribe /\ IdleDiarize /\ IdleEarlyReturn
        /\ IdleMultiChannel /\ IdleYouTube
SpecPool == InitPool /\ [][NextPool]_vars

InitEarlyReturn ==
    InitEarlyReturnOnly /\ IdleReconcile /\ IdleTranscribe /\ IdleDiarize /\ IdlePool
        /\ IdleMultiChannel /\ IdleYouTube
SpecEarlyReturn == InitEarlyReturn /\ [][NextEarlyReturn]_vars

InitMultiChannel ==
    InitMultiChannelOnly /\ IdleReconcile /\ IdleTranscribe /\ IdleDiarize /\ IdlePool
        /\ IdleEarlyReturn /\ IdleYouTube
SpecMultiChannel == InitMultiChannel /\ [][NextMultiChannel]_vars

InitYouTube ==
    InitYouTubeOnly /\ IdleReconcile /\ IdleTranscribe /\ IdleDiarize /\ IdlePool
        /\ IdleEarlyReturn /\ IdleMultiChannel
SpecYouTube == InitYouTube /\ [][NextYouTube]_vars

\* The event loop resumes every task that can run, and every download and
\* every processing step ends; nothing makes a request arrive.
SpecYouTubeFair ==
    /\ InitYouTube
    /\ [][NextYouTube]_vars
    /\ WF_vars(Resume)
    /\ WF_vars(DownloadReturns \/ DownloadRaises)
    /\ WF_vars(ProcessReturns \/ ProcessRaises)

Init ==
    InitReconcile \/ InitTranscribe \/ InitDiarize \/ InitPool \/ InitEarlyReturn
        \/ InitMultiChannel \/ InitYouTube
Next ==
    NextReconcile \/ NextTranscribe \/ NextDiarize \/ NextPool \/ NextEarlyReturn
        \/ NextMultiChannel \/ NextYouTube
Spec == Init /\ [][Next]_vars

-----------------------------------------------------------------------------
(* Properties of the reconciler. *)

PhaseADone == rc_pc \in {"contiguous", "returned", "contiguous2", "returned2"}
PhaseBDone == rc_pc \in {"returned", "contiguous2", "returned2"}

\* seg[i].end > seg[i+1].start in the clustering output
OverlapAt(i) == rc_in[i][2] > rc_in[i + 1][1]
\* seg[i] and seg[i+1] touch and carry the same speaker
TouchAt(s, i) == s[i][2] = s[i + 1][1] /\ s[i][3] = s[i + 1][3]

\* C1: the sequence returned by Phase A (get_contiguous_stamps) for a
\* non-empty input has end[i] <= start[i+1] for every adjacent pair.
C1_PhaseAContiguous ==
    PhaseADone =>
        \A i \in 1..(Len(rc_a) - 1) : rc_a[i][2] <= rc_a[i + 1][1]

\* C1 witness: Phase A has run on an input of three segments in which both
\* adjacent pairs overlap.
C1_Witness ==
    /\ rc_pc = "contiguous"
    /\ Len(rc_in) = 3
    /\ OverlapAt(1)
    /\ OverlapAt(2)

\* C2: the sequence returned by Phase B (merge_stamps) holds no two adjacent
\* segments a, b with a.end = b.start and a.speaker = b.speaker, chains of
\* three or more touching same-speaker segments included.
C2_PhaseBNoMergeablePair ==
    PhaseBDone =>
        \A i \in 1..(Len(rc_out) - 1) : ~TouchAt(rc_out, i)

\* C2 witness: Phase B has run on a chain of three touching segments of one
\* speaker.
C2_Witness ==
    /\ rc_pc = "returned"
    /\ Len(rc_a) = 3
    /\ TouchAt(rc_a, 1)
    /\ TouchAt(rc_a, 2)
    /\ rc_a[1][1] < rc_a[1][2]

\* C3: with R(x) = merge_stamps(get_contiguous_stamps(x)), R(R(x)) = R(x).
C3_ReconcileIdempotent ==
    rc_pc = "returned2" => rc_out2 = rc_out

\* C3 witness: both phases have run twice on an input that the first
\* application changed by averaging an overlap and by merging.
C3_Witness ==
    /\ rc_pc = "returned2"
    /\ Len(rc_in) = 3
    /\ Len(rc_out) = 2
    /\ \E i \in 1..2 : OverlapAt(i)

\* C10: Phase A returns a sequence of the same length as its input; an
\* overlap of segments i and i+1 puts the emitted end of i and the emitted
\* start of i+1 at (seg[i+1].start + seg[i].end) / 2, every other start and
\* end and every speaker is the input's; the example of the specification
\* yields [(0,4.5,A),(4.5,9,B),(9,9.5,A)].
C10_PhaseAResult ==
    PhaseADone =>
        /\ Len(rc_a) = Len(rc_in)
        /\ \A i \in 1..Len(rc_in) :
             /\ rc_a[i][3] = rc_in[i][3]
             /\ IF i < Len(rc_in) /\ OverlapAt(i)
                THEN 2 * rc_a[i][2] = rc_in[i + 1][1] + rc_in[i][2]
                ELSE rc_a[i][2] = rc_in[i][2]
             /\ IF i > 1 /\ OverlapAt(i - 1)
                THEN 2 * rc_a[i][1] = rc_in[i][1] + rc_in[i - 1][2]
                ELSE rc_a[i][1] = rc_in[i][1]
        /\ rc_in = ExampleOverlap =>
             rc_a = << <<0, 18, 0>>, <<18, 36, 1>>, <<36, 38, 0>> >>

\* C10 witness: Phase A has run on the example of the specification.
C10_Witness ==
    /\ rc_pc = "contiguous"
    /\ rc_in = ExampleOverlap
    /\ rc_a[2][1] = 18

-----------------------------------------------------------------------------
(* Properties of the transcription fallback. *)

TranscribeEnded == tr_pc \in {"returned", "raised"}
FallbackIssued == Len(tr_calls) >= 2

\* C4: the transcription model is invoked exactly once when the first pass
\* returns at least one segment, exactly twice when it returns none, and
\* never a third time, whatever the second pass returns.
C4_FallbackAtMostOnce ==
    /\ Len(tr_calls) <= 2
    /\ (TranscribeEnded /\ tr_first.st = "returned") =>
          Len(tr_calls) = (IF Len(tr_first.segments) >= 1 THEN 1 ELSE 2)

\* C4 witness: a call has returned after an empty first pass and an empty
\* second pass.
C4_Witness ==
    /\ tr_pc = "returned"
    /\ tr_first = Returned(<<>>)
    /\ tr_second = Returned(<<>>)

\* C5: whenever the retry pass is issued it runs with VAD filtering on,
\* suppress-blank off and word-timestamps on, whatever the caller's
\* internal_vad, suppress_blank and word_timestamps.
C5_FallbackForcesVadOn ==
    FallbackIssued =>
        /\ tr_calls[2].vad_filter = TRUE
        /\ tr_calls[2].suppress_blank = FALSE
        /\ tr_calls[2].word_timestamps = TRUE

\* C6: when the first pass returns no segment, the call returns exactly the
\* segments of the second call, in order, empty without an error when the
\* second call is empty too, and the warning that tells of the fallback is
\* logged; nothing but the model raises.
C6_FallbackResult ==
    /\ (tr_pc = "returned" /\ tr_first = Returned(<<>>)) =>
          /\ tr_second.st = "returned"
          /\ Len(tr_outputs) = Len(tr_second.segments)
          /\ \A i \in 1..Len(tr_second.segments) :
               /\ tr_outputs[i].start = tr_second.segments[i][1]
               /\ tr_outputs[i].end = tr_second.segments[i][2]
               /\ tr_outputs[i].text = tr_second.segments[i][3]
    /\ (tr_pc = "transcribed" /\ tr_second.st = "returned") =>
          ENABLED ReturnOutputs
    /\ tr_pc = "raised" => Raised \in {tr_first, tr_second}
    /\ tr_log = (IF tr_first = Returned(<<>>) THEN <<EmptyWarning>> ELSE <<>>)

\* C6 witness: the stub case, no segment from the first call and two from
\* the second, has returned.
C6_Witness ==
    /\ tr_pc = "returned"
    /\ tr_first = Returned(<<>>)
    /\ tr_second = Returned(<< <<0, 2, "s1">>, <<2, 4, "s2">> >>)
    /\ Len(tr_outputs) = 2

-----------------------------------------------------------------------------
(* Properties of the diarization parameter selection. *)

\* The pairing of two lists, entry k + 1 holding scale k.
Paired(windows, shifts) ==
    [k \in 1..Len(windows) |-> <<windows[k], shifts[k]>>]

\* C9: the parameters handed to the segmentation model are those of the
\* duration's tier: below 3600 s the configured windows, shifts and weights
\* with batch size 64, 128 or 256 by the number of weights; from 3600 s to
\* below 10800 s the windows [3.0,2.5,2.0,1.5,1.0] with the configured
\* shifts and weights and batch size 64; from 10800 s on the windows
\* [3.0,2.0,1.0], shifts [0.75,0.5,0.25], weights [1,1,1] and batch size 32.
C9_ParameterTiers ==
    dz_seg.called =>
        LET d == dz_call.audio_duration
            n == Len(dz_cfg.multiscale_weights)
        IN /\ d < 36000 =>
                /\ Len(dz_cfg.window_lengths) = Len(dz_cfg.shift_lengths)
                /\ dz_seg.scale_dict =
                     Paired(dz_cfg.window_lengths, dz_cfg.shift_lengths)
                /\ dz_seg.multiscale_weights = dz_cfg.multiscale_weights
                /\ dz_seg.batch_size =
                     (IF n > 3 THEN 64 ELSE IF n > 1 THEN 128 ELSE 256)
           /\ (36000 <= d /\ d < 108000) =>
                /\ Len(dz_cfg.shift_lengths) = 5
                /\ dz_seg.scale_dict =
                     Paired(<<300, 250, 200, 150, 100>>, dz_cfg.shift_lengths)
                /\ dz_seg.multiscale_weights = dz_cfg.multiscale_weights
                /\ dz_seg.batch_size = 64
           /\ d >= 108000 =>
                /\ dz_seg.scale_dict =
                     << <<300, 75>>, <<200, 50>>, <<100, 25>> >>
                /\ dz_seg.multiscale_weights = <<1, 1, 1>>
                /\ dz_seg.batch_size = 32

\* C9 witness: segmentation has been invoked for an audio of exactly 3600 s
\* under a configuration of five scales and two weights.
C9_Witness ==
    /\ dz_seg.called
    /\ dz_call.audio_duration = 36000
    /\ Len(dz_cfg.shift_lengths) = 5
    /\ Len(dz_cfg.multiscale_weights) = 2
    /\ dz_seg.batch_size = 64

-----------------------------------------------------------------------------
(* Properties of the device pool. *)

Leased == UNION {pl_lease[j] : j \in Jobs}

\* C7: at no instant are more than N leases outstanding, no replica is
\* leased to two jobs at once, and no lease is on a replica outside the
\* configured device index list.
C7_PoolMutualExclusion ==
    /\ Cardinality({j \in Jobs : pl_lease[j] /= {}}) <= Cardinality(DeviceIndex)
    /\ \A j \in Jobs : Cardinality(pl_lease[j]) <= 1
    /\ \A j, k \in Jobs : j /= k => pl_lease[j] \cap pl_lease[k] = {}
    /\ Leased \subseteq DeviceIndex
    /\ pl_free \cap Leased = {}

\* C7 witness: every replica is leased while another job waits, after a
\* replica has been released and acquired again.
C7_Witness ==
    /\ Leased = DeviceIndex
    /\ \E j \in Jobs : pl_state[j] = "Queued"
    /\ \E j \in Jobs : pl_state[j] \in Terminal \ {"Cancelled"}
    /\ pl_last.kind = "acquire"

\* C8: a replica is busy only while a non-terminal job holds its lease, and
\* right after a job that held a slot has failed its replica is free.
C8_PoolLeakFree ==
    /\ \A r \in DeviceIndex :
         r \notin pl_free =>
            \E j \in Jobs : r \in pl_lease[j] /\ pl_state[j] \in NonTerminal
    /\ \A j \in Jobs : pl_state[j] \in Terminal => pl_lease[j] = {}
    /\ pl_last.kind = "fail" =>
         /\ pl_last.replicas /= {}
         /\ pl_last.replicas \subseteq pl_free

\* C8 witness: a job has just failed while its models were running.
C8_Witness ==
    /\ pl_last.kind = "fail"
    /\ pl_state[pl_last.job] = "Failed"
    /\ pl_last.replicas /= {}
    /\ \E j \in Jobs : pl_state[j] = "Running"

-----------------------------------------------------------------------------
(* Phase B in closed form. *)

\* The last indices of the maximal runs of touching same-speaker segments.
RunEnds(s) == {i \in 1..Len(s) : i = Len(s) \/ ~TouchAt(s, i)}
\* The first index of the maximal run that ends at e.
RunStart(s, e) ==
    CHOOSE a \in 1..e :
        /\ \A k \in a..(e - 1) : TouchAt(s, k)
        /\ a = 1 \/ ~TouchAt(s, a - 1)
\* The position of the run that ends at e among the runs.
RunRank(s, e) == Cardinality({x \in RunEnds(s) : x <= e})

\* C11: merge_stamps replaces each maximal run of consecutive segments whose
\* neighbours have equal speaker and end = next start by one segment (start
\* of the run's first segment, end of its last, that speaker) and emits
\* every other segment unchanged and in order; [(0,3,A),(3,6,A)] yields
\* [(0,6,A)].
C11_PhaseBResult ==
    PhaseBDone =>
        /\ Len(rc_out) = Cardinality(RunEnds(rc_a))
        /\ \A e \in RunEnds(rc_a) :
             rc_out[RunRank(rc_a, e)] =
                 <<rc_a[RunStart(rc_a, e)][1], rc_a[e][2], rc_a[e][3]>>
        /\ rc_a = ExampleTouching => rc_out = << <<0, 24, 0>> >>

\* C11 witness: Phase B has run on three segments of which the first two
\* form a run and the third stands alone.
C11_Witness ==
    /\ rc_pc = "returned"
    /\ Len(rc_a) = 3
    /\ TouchAt(rc_a, 1)
    /\ ~TouchAt(rc_a, 2)
    /\ rc_a[1][2] < rc_a[2][2]
    /\ Len(rc_out) = 2

-----------------------------------------------------------------------------
(* Properties of the diarization call. *)

\* C12: the scale configuration handed to the segmentation model has as
\* many (window, shift) entries as the multiscale_weights list handed with
\* it has weights.
C12_ScaleConfigLengths ==
    dz_seg.called => Len(dz_seg.scale_dict) = Len(dz_seg.multiscale_weights)

\* C13: a configuration with mismatched list lengths is rejected when the
\* service is constructed, and once construction has succeeded no call of
\* any duration fails with a list-length error.
C13_ConfigErrorsFailFast ==
    /\ dz_pc \notin {"new", "init_error"} =>
          Len(dz_cfg.window_lengths) = Len(dz_cfg.shift_lengths)
    /\ dz_result.kind /= "ValueError"

\* C14: Phase A / Phase B are never invoked on an empty clustering output,
\* and no call ends in the IndexError of indexing the last element of an
\* empty sequence.
C14_EmptyClusteringHandled ==
    /\ dz_result.kind /= "IndexError"
    /\ (\E i \in 1..Len(dz_trace) : dz_trace[i].op = "reconcile") =>
          Len(dz_call.clustering_outputs) > 0

\* The collaborators a call with speech invokes, in order.
FullTrace ==
    << Invoked("vad", {}),
       Invoked("segmentation", {dz_call.model_index}),
       Invoked("clustering", {dz_call.model_index}),
       Invoked("reconcile", {}) >>

\* C15: when VAD returns no interval the call returns the no-speech signal
\* and invokes neither segmentation nor clustering nor the reconciler; when
\* it returns intervals, segmentation comes before clustering and clustering
\* before reconciliation, each on the replica named by model_index.
C15_NoSpeechShortCircuit ==
    dz_pc \in {"vad_done", "segmented", "clustered", "returned", "call_error"} =>
        /\ ~dz_call.speech =>
              /\ dz_pc = "returned"
              /\ dz_result.kind = "None"
              /\ dz_trace = <<Invoked("vad", {})>>
              /\ ~dz_seg.called
        /\ dz_call.speech =>
              /\ dz_result.kind /= "None"
              /\ Len(dz_trace) <= 4
              /\ \A i \in 1..Len(dz_trace) : dz_trace[i] = FullTrace[i]
              /\ dz_seg.called => dz_seg.replica = dz_call.model_index
              /\ dz_pc = "returned" => Len(dz_trace) = 4

\* C15 witness: a call on replica 1 has returned the no-speech signal after
\* VAD alone was invoked.
C15_Witness ==
    /\ dz_pc = "returned"
    /\ ~dz_call.speech
    /\ dz_call.model_index = 1
    /\ dz_result.kind = "None"
    /\ Len(dz_trace) = 1

-----------------------------------------------------------------------------
(* Properties of early_return. *)

\* C16: for every duration d, the empty-audio result is exactly one
\* placeholder utterance with start 0, end d and no speaker, together with
\* the audio duration d and process times whose total is zero (so are the
\* transcription and post-processing times; the diarization time is None).
C16_EarlyReturnResult ==
    er_pc = "returned" =>
        /\ Len(er_result) = 3
        /\ Len(er_result[1]) = 1
        /\ er_result[1][1].start = 0
        /\ er_result[1][1].end = er_duration
        /\ er_result[1][1].speaker = "None"
        /\ er_result[3] = er_duration
        /\ er_result[2].total = 0
        /\ er_result[2].transcription = 0
        /\ er_result[2].post_processing = 0

C16_Witness ==
    /\ er_pc = "returned"
    /\ er_duration = MaxDuration
    /\ er_result[1][1].end = MaxDuration

-----------------------------------------------------------------------------
(* Properties of the multi-channel path. *)

\* The segments the model yielded for the c-th finished channel.
YieldedFor(c) == mc_calls[c].outcome.segments

\* C17: every segment the multi-channel path returns starts at the start
\* of its first word and ends at the end of its last word, whatever
\* boundaries the model gave the segment; its words are the model's words
\* in the model's order and its text is the model's text.
C17_MultiChannelBoundaries ==
    \A c \in 1..Len(mc_outputs) :
        /\ c <= Len(mc_calls)
        /\ Len(mc_outputs[c]) = Len(YieldedFor(c))
        /\ \A j \in 1..Len(mc_outputs[c]) :
             LET out == mc_outputs[c][j]
                 seg == YieldedFor(c)[j]
             IN  Len(seg.words) > 0 =>
                   /\ out.start = seg.words[1].start
                   /\ out.end = seg.words[Len(seg.words)].end
                   /\ out.text = seg.text
                   /\ Len(out.words) = Len(seg.words)
                   /\ \A w \in 1..Len(seg.words) :
                        /\ out.words[w].word = seg.words[w].word
                        /\ out.words[w].start = seg.words[w].start
                        /\ out.words[w].end = seg.words[w].end

C17_Witness ==
    /\ mc_pc = "returned"
    /\ Len(mc_outputs) = 2
    /\ YieldedFor(2) = <<SegTwoWords, SegOneWord>>
    /\ YieldedFor(1) = <<SegUnordered>>
    /\ mc_outputs[2][1].start = 1 /\ mc_outputs[2][1].end = 4
    /\ mc_outputs[1][1].start = 3 /\ mc_outputs[1][1].end = 2

\* C18: when the model yields a segment without words for a channel, the
\* call ends in an error raised on purpose, not in an IndexError, and no
\* returned transcript holds a segment without start or end.
C18_ZeroWordExplicitError ==
    /\ (\E c \in 1..Len(mc_calls) : RaisesIndexError(mc_calls[c].outcome.segments))
          => (mc_pc = "raised" /\ mc_error \notin {"none", "IndexError"})
    /\ \A c \in 1..Len(mc_outputs) : \A j \in 1..Len(mc_outputs[c]) :
          Len(mc_outputs[c][j].words) > 0

\* C19: the channels are transcribed in increasing index order, channel k
\* with speaker k and with the one prompt computed before the first
\* channel; the result holds one output per channel, in channel order, and
\* every segment of the k-th output carries speaker k.
C19_PerChannelAttribution ==
    /\ mc_pc \notin {"idle", "called"} => mc_prompt = Prompt(mc_args.vocab)
    /\ Len(mc_calls) <= Len(mc_args.audio)
    /\ \A c \in 1..Len(mc_calls) :
          /\ c <= Len(mc_args.audio)
          /\ mc_calls[c].audio = mc_args.audio[c]
          /\ mc_calls[c].speaker_id = c - 1
          /\ mc_calls[c].initial_prompt = mc_prompt
    /\ mc_pc = "returned" =>
          /\ Len(mc_outputs) = Len(mc_args.audio)
          /\ Len(mc_calls) = Len(mc_args.audio)
    /\ \A c \in 1..Len(mc_outputs) :
          /\ c <= Len(mc_calls)
          /\ Len(mc_outputs[c]) = Len(YieldedFor(c))
          /\ \A j \in 1..Len(mc_outputs[c]) :
               /\ mc_outputs[c][j].speaker = c - 1
               /\ mc_outputs[c][j].text = YieldedFor(c)[j].text

C19_Witness ==
    /\ mc_pc = "returned"
    /\ Len(mc_args.audio) = 2
    /\ mc_prompt.given
    /\ Len(mc_outputs[1]) = 2 /\ mc_outputs[1][2].speaker = 0
    /\ Len(mc_outputs[2]) = 1 /\ mc_outputs[2][1].speaker = 1

\* The calls made for the same audio as the c-th call.
CallsForAudioOf(c) ==
    {d \in 1..Len(mc_calls) : mc_calls[d].audio = mc_calls[c].audio}

\* C20: a channel whose first pass yields no segment is transcribed once
\* more, under the options of the retry of the single-audio path.
C20_MultiChannelFallback ==
    mc_pc = "returned" =>
        \A c \in 1..Len(mc_calls) :
            (mc_calls[c].outcome = Returned(<<>>)
               /\ \A d \in CallsForAudioOf(c) : d >= c)
            => \E d \in CallsForAudioOf(c) :
                  /\ d > c
                  /\ CallsForAudioOf(c) = {c, d}
                  /\ mc_calls[d].options.vad_filter
                        = FallbackOptions(mc_args).vad_filter

-----------------------------------------------------------------------------
(* Properties of the prompt. *)

\* The strings of a list that are neither empty nor made of spaces only.
RECURSIVE NonEmptyStrings(_)
NonEmptyStrings(words) ==
    IF Len(words) = 0 THEN <<>>
    ELSE IF Len(Strip(Head(words))) > 0
         THEN <<Head(words)>> \o NonEmptyStrings(Tail(words))
         ELSE NonEmptyStrings(Tail(words))

\* "Vocab: " followed by the non-empty strings joined by ", ", or no prompt
\* when there is none.
PromptOfNonEmptyStrings(vocab) ==
    IF vocab.given /\ Len(NonEmptyStrings(vocab.words)) > 0
    THEN [given |-> TRUE,
          text |-> <<"V", "o", "c", "a", "b", ":", " ">>
                      \o Join(NonEmptyStrings(vocab.words))]
    ELSE NoPrompt

\* C21: the prompt handed to the model is absent when the vocabulary is
\* missing, empty or made only of empty or whitespace-only strings, and
\* otherwise is "Vocab: " followed by the non-empty strings of the list
\* joined by ", ", wherever the empty entries sit in the list.
C21_PromptConstruction ==
    \A i \in 1..Len(tr_calls) :
        tr_calls[i].initial_prompt = PromptOfNonEmptyStrings(tr_args.vocab)

-----------------------------------------------------------------------------
(* Further properties of the reconciler. *)

\* C24: for a non-empty input ordered by start whose segments all have
\* start <= end, a later segment lying inside an earlier one included,
\* every segment Phase A emits has start <= end and the emitted sequence is
\* ordered by start.
C24_PhaseAWellFormed ==
    (PhaseADone /\ Len(rc_in) > 0) =>
        /\ \A i \in 1..Len(rc_a) : rc_a[i][1] <= rc_a[i][2]
        /\ \A i \in 1..(Len(rc_a) - 1) : rc_a[i][1] <= rc_a[i + 1][1]

\* C25: for a non-empty input, the output of Phase A followed by Phase B
\* has end[i] <= start[i+1] for every adjacent pair, starts where the input
\* starts, ends where the input's last segment ends, and is no longer than
\* the input.
C25_ContiguitySurvivesMerge ==
    (PhaseBDone /\ Len(rc_in) > 0) =>
        /\ Len(rc_out) > 0
        /\ Len(rc_out) <= Len(rc_in)
        /\ \A i \in 1..(Len(rc_out) - 1) : rc_out[i][2] <= rc_out[i + 1][1]
        /\ rc_out[1][1] = rc_in[1][1]
        /\ rc_out[Len(rc_out)][2] = rc_in[Len(rc_in)][2]

C25_Witness ==
    /\ rc_pc = "returned"
    /\ Len(rc_in) = 3
    /\ Len(rc_out) = 2
    /\ OverlapAt(1)
    /\ TouchAt(rc_a, 2)

-----------------------------------------------------------------------------
(* Properties of the replica binding. *)

\* C26: a transcription call made for a job bound to replica i submits its
\* work only to the transcription model instance of replica i, so that
\* jobs bound to different replicas never submit to the same instance.
C26_TranscribeOnBoundReplica ==
    \A c \in 1..Len(tr_calls) :
        /\ tr_calls[c].model.device_index = {tr_args.model_index}
        /\ \A j \in DeviceIndex \ {tr_args.model_index} :
              ModelFor(j) /= tr_calls[c].model

-----------------------------------------------------------------------------
(* Properties of the YouTube endpoint. *)

\* The number of requests whose handler is at one of the positions pcs.
RequestsAt(pcs) ==
    BagCardinality([r \in {q \in BagToSet(yt_reqs) : q.pc \in pcs} |-> yt_reqs[r]])

\* The requests holding a permit: those that entered the block, less those
\* that gave their permit back.
PermitHolders ==
    BagCardinality([r \in {q \in BagToSet(yt_reqs) :
                               q.pc \in {"downloading", "processing"}
                               /\ q.releases = 0} |-> yt_reqs[r]])

\* C22: at no instant do more than 10 requests hold a download_limit
\* permit, and a request that arrived when every permit was held is
\* suspended without a download or a file until it is given a permit.
C22_DownloadConcurrencyBound ==
    /\ PermitHolders <= DownloadLimit
    /\ RequestsAt({"downloading"}) <= DownloadLimit
    /\ yt_value >= 0
    /\ \A r \in BagToSet(yt_reqs) :
          r.pc = "waiting" => (~r.filepath /\ r.response = NoResponse)

C22_Witness ==
    /\ RequestsAt({"waiting"}) = NumRequests - DownloadLimit
    /\ RequestsAt({"downloading"}) = DownloadLimit
    /\ yt_value = 0

\* C23: a request whose processing yielded an error result is answered
\* with HTTP 500 carrying the error text and no utterances, and has given
\* its permit back; the permits held are exactly those of the requests
\* still inside the block, so the others go on to their own answers.
C23_ErrorReportedPerRequest ==
    /\ \A r \in BagToSet(yt_reqs) :
          r.result.exception
          => /\ r.pc = "responded"
             /\ r.releases = 1
             /\ r.response =
                  [status |-> 500, utterances |-> FALSE, detail |-> r.result.text]
    /\ yt_value + RequestsAt({"downloading", "processing"}) = DownloadLimit
    /\ (RequestsAt({"waiting"}) > 0 /\ yt_value = 0)
          => RequestsAt({"downloading", "processing"}) > 0

C23_Witness ==
    /\ \E r \in BagToSet(yt_reqs) :
          /\ r.pc = "responded"
          /\ r.result.exception
          /\ r.response = [status |-> 500, utterances |-> FALSE, detail |-> "error"]
          /\ yt_reqs[r] = 1
    /\ \E r \in BagToSet(yt_reqs) :
          /\ r.pc = "responded"
          /\ r.response.status = 200
          /\ yt_reqs[r] = NumRequests - 1
    /\ yt_value = DownloadLimit

\* C27: a request takes its permit before the download starts and gives
\* it back only once asr.process_input has returned or failed: a request
\* that is downloading or being processed has not released, so at most 10
\* requests are downloading or being processed at any instant.
C27_PermitSpansProcessing ==
    /\ \A r \in BagToSet(yt_reqs) :
          /\ r.pc \in {"downloading", "processing"} => r.releases = 0
          /\ r.pc \in {"new", "waiting"} => r.releases = 0
    /\ RequestsAt({"downloading", "processing"}) <= DownloadLimit
    /\ RequestsAt({"downloading", "processing"}) = PermitHolders

C27_Witness ==
    /\ RequestsAt({"processing"}) = DownloadLimit
    /\ RequestsAt({"waiting"}) = 1
    /\ yt_value = 0

\* C28: on every way out of a request (the download raises, processing
\* raises, processing returns an error result, success) the permit is
\* released exactly once, so that when no request is in flight all 10
\* permits are available.
C28_PermitsNeverLeak ==
    /\ \A r \in BagToSet(yt_reqs) : r.pc = "responded" => r.releases = 1
    /\ RequestsAt({"waiting", "downloading", "processing"}) = 0
          => yt_value = DownloadLimit
    /\ yt_value <= DownloadLimit

C28_Witness ==
    /\ RequestsAt({"responded"}) = NumRequests
    /\ yt_value = DownloadLimit
    /\ \E r \in BagToSet(yt_reqs) : r.response = Unhandled /\ ~r.filepath
    /\ \E r \in BagToSet(yt_reqs) : r.response = Unhandled /\ r.filepath
    /\ \E r \in BagToSet(yt_reqs) : r.response.detail = "error"
    /\ \E r \in BagToSet(yt_reqs) : r.response.status = 200

\* C29: for every request whose download succeeded, the deletion of the
\* downloaded file has been scheduled exactly once when the request ends,
\* whether processing succeeded, returned an error result, or raised.
C29_DownloadedFileCleanedUp ==
    \A r \in BagToSet(yt_reqs) :
        (r.pc = "responded" /\ r.filepath) => r.deletes = 1

\* No request is suspended, downloading or being processed.
NoneInFlight == RequestsAt({"waiting", "downloading", "processing"}) = 0

\* C30: when every download and every processing step ends, every request
\* suspended on download_limit is given a permit and is answered: from
\* some instant on, no request is suspended or inside the block.
C30_NoRequestWaitsForever == <>[]NoneInFlight

C30_Witness ==
    /\ RequestsAt({"waiting"}) = 1
    /\ RequestsAt({"responded"}) = 1
    /\ RequestsAt({"downloading", "processing"}) = DownloadLimit - 1
    /\ yt_value = 1

=============================================================================
